---- MODULE Spec2Model ----
(***************************************************************************)
(* Model of the Cxbx-Reloaded launcher of batocera-xbox-extras:            *)
(*   configgen/generators/cxbxr/cxbxrGenerator.py  (CxbxrGenerator)        *)
(*   configgen/xboxlauncher.py                     (start_rom, runCommand) *)
(*                                                                         *)
(* Text is a sequence of atoms.  An atom is either one of the characters   *)
(* the code or the shell treats specially ("/", "\\", " ", ";", "(", ")")  *)
(* or a run of ordinary characters (letters, digits, ".", "-", "_", ":")  *)
(* that neither str.replace nor bash splits.  A path is a sequence of     *)
(* components; a component is text without "/".                            *)
(***************************************************************************)
EXTENDS Integers, Sequences, FiniteSets, TLC

VARIABLES
    host,        \* the machine and what launches draw from (constant in a behaviour)
    settings,    \* app/settings.ini
    dirs,        \* directories the launcher may create, other than extractions
    tricks,      \* wine tricks installed in the bottle
    extracts,    \* iso-extracts/<name> -> the tree extracted there
    wrapper,     \* content of cxbx-wrapper.sh
    osEnviron,   \* os.environ of the running launcher process
    launch,      \* the launcher process: its inputs, generator fields, result
    proc,        \* the child process started by runCommand
    peer         \* a second launcher process, not scheduled: its osEnviron, launch, proc

vars == <<host, settings, dirs, tricks, extracts, wrapper, osEnviron, launch, proc, peer>>

(***************************************************************************)
(* Bounds of the model.                                                    *)
(***************************************************************************)
\* exit statuses of the emulator range over 0..MaxExit
MaxExit == 2

(***************************************************************************)
(* Text and paths.                                                         *)
(***************************************************************************)
\* str(path) of an absolute pathlib.Path
RECURSIVE PathStr(_)
PathStr(p) == IF p = <<>> THEN <<>> ELSE <<"/">> \o Head(p) \o PathStr(Tail(p))

\* str.replace(old, new) for one-character old and new
RECURSIVE Replace(_, _, _)
Replace(s, old, new) ==
    IF s = <<>> THEN <<>>
    ELSE <<IF Head(s) = old THEN new ELSE Head(s)>> \o Replace(Tail(s), old, new)

\* ' '.join(args)
RECURSIVE JoinSpace(_)
JoinSpace(args) ==
    IF args = <<>> THEN <<>>
    ELSE IF Len(args) = 1 THEN Head(args)
    ELSE Head(args) \o <<" ">> \o JoinSpace(Tail(args))

XBOX_EXTRA == << <<"userdata">>, <<"system">>, <<"xbox-extra">> >>
BATOCERA_LOGDIR == << <<"userdata">>, <<"system">>, <<"logs">> >>
ISO_EXTRACT_BASE == XBOX_EXTRA \o << <<"iso-extracts">> >>
EXTRACT_XISO_BIN == XBOX_EXTRA \o << <<"bin">>, <<"extract-xiso">> >>
cxbxr_base == XBOX_EXTRA \o << <<"cxbx-r">> >>
cxbxr_exe == cxbxr_base \o << <<"app">>, <<"cxbxr-ldr.exe">> >>
wrapper_script == XBOX_EXTRA \o << <<"cxbx-wrapper.sh">> >>
\* wine_runner.wine of wine.Runner('wine-proton', 'cxbx-r')
wine_exe == << <<"usr">>, <<"wine">>, <<"wine-proton">>, <<"bin">>, <<"wine">> >>

\* f'Z:{str(path).replace("/", "\\")}'
WinePath(p) == <<"Z:">> \o Replace(PathStr(p), "/", "\\")

(***************************************************************************)
(* ROM paths, extracted trees, extraction directory names.                 *)
(***************************************************************************)
\* str.lower() on an atom: the mixed- and upper-case atoms of the model
LowerAtom(a) ==
    CASE a = ".ISO" -> ".iso"
      [] a = ".XBE" -> ".xbe"
      [] a = "DEFAULT.XBE" -> "default.xbe"
      [] a = "GAME" -> "game"
      [] a = "My" -> "my"
      [] a = "Game" -> "game"
      [] OTHER -> a

Lower(s) == [i \in 1..Len(s) |-> LowerAtom(s[i])]

\* A ROM is Path(rom): its directory, and a file name split at the last dot
\* into Path.stem and Path.suffix.
RomDir == << <<"userdata">>, <<"roms">>, <<"xbox">> >>
RomPath(rom) == RomDir \o << rom.stem \o <<rom.suffix>> >>

HaloIso == [stem |-> <<"halo">>, suffix |-> ".iso"]
MyGameIso == [stem |-> <<"My", " ", "Game">>, suffix |-> ".ISO"]
GameXbe == [stem |-> <<"game">>, suffix |-> ".xbe"]
GameXbeUpper == [stem |-> <<"GAME">>, suffix |-> ".XBE"]
GameBin == [stem |-> <<"game">>, suffix |-> ".bin"]
Roms == {HaloIso, MyGameIso, GameXbe, GameXbeUpper, GameBin}

\* hashlib.md5(str(iso_path).encode()).hexdigest()[:8], tabulated for Roms
Md5Hex8(text) ==
    CASE text = PathStr(RomPath(HaloIso)) -> "435ccb3a"
      [] text = PathStr(RomPath(MyGameIso)) -> "ffb57cfe"
      [] text = PathStr(RomPath(GameXbe)) -> "b8e143d3"
      [] text = PathStr(RomPath(GameXbeUpper)) -> "672bb0ef"
      [] text = PathStr(RomPath(GameBin)) -> "f3d0a537"

\* c if c.isalnum() or c in ('-', '_') else '_'   (the ordinary atoms of a
\* stem in Roms are alphanumeric)
SafeAtom(a) == IF a \in {" ", ";", "(", ")", "/", "\\"} THEN "_" ELSE a

\* An extracted tree: the set of its entries, each with the path relative to
\* the extraction directory and whether it is a regular file or a directory.
File(rel) == [rel |-> rel, kind |-> "file"]
Dir(rel) == [rel |-> rel, kind |-> "dir"]

ImgTop == {File(<< <<"default.xbe">> >>)}
ImgTopUpper == {File(<< <<"DEFAULT.XBE">> >>)}
ImgNestedSpace ==
    {Dir(<< <<"my", " ", "game">> >>),
     File(<< <<"my", " ", "game">>, <<"default.xbe">> >>)}
ImgNestedSemi ==
    {Dir(<< <<"a", ";", "b">> >>),
     File(<< <<"a", ";", "b">>, <<"default.xbe">> >>)}
ImgNestedParen ==
    {Dir(<< <<"game", " ", "(", "usa", ")">> >>),
     File(<< <<"game", " ", "(", "usa", ")">>, <<"DEFAULT.XBE">> >>)}
ImgDirNamedXbe == {Dir(<< <<"default.xbe">> >>), File(<< <<"default.xbe">>, <<"game.bin">> >>)}
ImgNoXbe == {Dir(<< <<"media">> >>), File(<< <<"media">>, <<"intro.xmv">> >>)}
Images ==
    {ImgTop, ImgTopUpper, ImgNestedSpace, ImgNestedSemi, ImgNestedParen,
     ImgDirNamedXbe, ImgNoXbe}
NoEntry == [rel |-> <<>>, kind |-> "none"]

(***************************************************************************)
(* bash: how the wrapper script's command line is read.                    *)
(*   " "   separates words          "\\"  quotes the next character        *)
(*   ";"   separates commands       "(" ")" unquoted after a word are a    *)
(*                                   syntax error                          *)
(* The result is [ok, cmds]: cmds is the list of simple commands, each a   *)
(* list of words.                                                          *)
(***************************************************************************)
RECURSIVE ShellScan(_, _, _, _, _)
ShellScan(line, cmds, cmd, word, inWord) ==
    LET endWord == IF inWord THEN Append(cmd, word) ELSE cmd
    IN  IF line = <<>>
        THEN [ok |-> TRUE,
              cmds |-> IF endWord = <<>> THEN cmds ELSE Append(cmds, endWord)]
        ELSE LET c == Head(line) IN
             CASE c = "\\" ->
                    IF Len(line) = 1
                    THEN ShellScan(<<>>, cmds, cmd, word, inWord)
                    ELSE ShellScan(Tail(Tail(line)), cmds, cmd,
                                   Append(word, line[2]), TRUE)
               [] c = " " -> ShellScan(Tail(line), cmds, endWord, <<>>, FALSE)
               [] c = ";" ->
                    IF endWord = <<>>
                    THEN [ok |-> FALSE, cmds |-> <<>>]
                    ELSE ShellScan(Tail(line), Append(cmds, endWord), <<>>, <<>>, FALSE)
               [] c \in {"(", ")"} -> [ok |-> FALSE, cmds |-> <<>>]
               [] OTHER -> ShellScan(Tail(line), cmds, cmd, Append(word, c), TRUE)

ShellParse(line) == ShellScan(line, <<>>, <<>>, <<>>, FALSE)

(***************************************************************************)
(* settings.ini.  The file is absent, unparsable ("corrupt"), or holds a   *)
(* document: a list of sections, each a list of <<key, value>> items, in   *)
(* file order, written in some layout.  "raw" is any layout other than the *)
(* one ConfigParser.write produces (comments, "key=value", "key : value",  *)
(* the default template's spacing); "canonical" is ConfigParser's own.     *)
(* Values are text; keys and section names are case-sensitive strings.     *)
(***************************************************************************)
Absent == [kind |-> "absent"]
Corrupt == [kind |-> "corrupt"]
IniFile(layout, secs) == [kind |-> "ini", layout |-> layout, secs |-> secs]

Section(name, items) == [name |-> name, items |-> items]

SecIndex(secs, name) == {i \in 1..Len(secs) : secs[i].name = name}
\* config.has_section(section)
has_section(secs, name) == SecIndex(secs, name) # {}
\* config.add_section(section)
add_section(secs, name) == Append(secs, Section(name, <<>>))

KeyIndex(items, key) == {i \in 1..Len(items) : items[i][1] = key}
\* a faulty set that adds the item without looking for the key
AppendItem(items, key, value) == Append(items, <<key, value>>)
\* config.set on the items of one section
SetItem(items, key, value) ==
    IF KeyIndex(items, key) = {}
    THEN Append(items, <<key, value>>)
    ELSE [i \in 1..Len(items) |->
            IF items[i][1] = key THEN <<key, value>> ELSE items[i]]
\* config.set(section, option, value): the section exists
config_set(secs, name, key, value) ==
    [i \in 1..Len(secs) |->
        IF secs[i].name = name
        THEN Section(name, SetItem(secs[i].items, key, value))
        ELSE secs[i]]

\* config.get: the value of a key, or "unset" (a one-atom marker no file holds)
Unset == <<"<unset>">>
Lookup(secs, name, key) ==
    IF SecIndex(secs, name) = {} THEN Unset
    ELSE LET items == secs[CHOOSE i \in SecIndex(secs, name) : TRUE].items
         IN  IF KeyIndex(items, key) = {} THEN Unset
             ELSE items[CHOOSE i \in KeyIndex(items, key) : TRUE][2]

GovernedSections == <<"gui", "core", "video", "audio", "input-general">>

RECURSIVE EnsureSections(_, _)
EnsureSections(secs, names) ==
    IF names = <<>> THEN secs
    ELSE EnsureSections(
            IF has_section(secs, Head(names)) THEN secs
            ELSE add_section(secs, Head(names)),
            Tail(names))

\* default_content of _create_default_settings
DefaultSecs ==
    << Section("gui",
          << <<"CxbxDebugMode", <<"0x0">> >>,
             <<"CxbxDebugLogFile", <<>> >>,
             <<"DataStorageToggle", <<"0x1">> >>,
             <<"DataCustomLocation", <<>> >>,
             <<"IgnoreInvalidXbeSig", <<"false">> >>,
             <<"IgnoreInvalidXbeSec", <<"false">> >>,
             <<"ConsoleTypeToggle", <<"0x0">> >> >>),
       Section("core",
          << <<"Revision", <<"9">> >>,
             <<"FlagsLLE", <<"0x0">> >>,
             <<"KrnlDebugMode", <<"0x0">> >>,
             <<"KrnlDebugLogFile", <<>> >>,
             <<"AllowAdminPrivilege", <<"false">> >>,
             <<"LogLevel", <<"1">> >>,
             <<"LogPopupTestCase", <<"false">> >> >>),
       Section("video",
          << <<"VideoResolution", <<>> >>,
             <<"adapter", <<"0x0">> >>,
             <<"Direct3DDevice", <<"0x0">> >>,
             <<"VSync", <<"false">> >>,
             <<"FullScreen", <<"true">> >>,
             <<"MaintainAspect", <<"true">> >>,
             <<"RenderResolution", <<"1">> >> >>),
       Section("audio",
          << <<"adapter", <<"00000000", " ", "0000", " ", "0000", " ", "0000", " ", "000000000000">> >>,
             <<"PCM", <<"true">> >>,
             <<"XADPCM", <<"true">> >>,
             <<"UnknownCodec", <<"true">> >>,
             <<"MuteOnUnfocus", <<"true">> >> >>),
       Section("input-general",
          << <<"MouseAxisRange", <<"10">> >>,
             <<"MouseWheelRange", <<"80">> >>,
             <<"IgnoreKbMoUnfocus", <<"true">> >> >>),
       Section("overlay",
          << <<"Build Hash", <<"false">> >>,
             <<"FPS", <<"false">> >>,
             <<"HLE/LLE Stats", <<"false">> >>,
             <<"Title Name", <<"false">> >>,
             <<"File Name", <<"false">> >> >>),
       Section("hack",
          << <<"DisablePixelShaders", <<"false">> >>,
             <<"UseAllCores", <<"false">> >>,
             <<"SkipRdtscPatching", <<"false">> >> >>) >>

\* settings_file.write_text(default_content)
create_default_settings == IniFile("raw", DefaultSecs)

\* system.config.get_bool('cxbxr_debug', False) on the option's value:
\* "unset" when the launch options do not hold the key
get_bool(value) == value \in {"1", "true"}
DebugOptions == {"unset", "0", "1"}

GuiLogFile == PathStr(BATOCERA_LOGDIR \o << <<"cxbx-gui-debug.log">> >>)
KrnlLogFile == PathStr(BATOCERA_LOGDIR \o << <<"cxbx-kernel-debug.log">> >>)

\* a faulty variant whose disabled branch clears the two flags and leaves the
\* log file paths as they are
SetDebugKeepingLogs(secs, debug_enabled) ==
    IF debug_enabled
    THEN config_set(config_set(config_set(config_set(secs,
            "gui", "CxbxDebugMode", <<"0x1">>),
            "gui", "CxbxDebugLogFile", GuiLogFile),
            "core", "KrnlDebugMode", <<"0x1">>),
            "core", "KrnlDebugLogFile", KrnlLogFile)
    ELSE config_set(config_set(secs,
            "gui", "CxbxDebugMode", <<"0x0">>),
            "core", "KrnlDebugMode", <<"0x0">>)

\* the four config.set calls of either branch
SetDebug(secs, debug_enabled) ==
    IF debug_enabled
    THEN config_set(config_set(config_set(config_set(secs,
            "gui", "CxbxDebugMode", <<"0x1">>),
            "gui", "CxbxDebugLogFile", GuiLogFile),
            "core", "KrnlDebugMode", <<"0x1">>),
            "core", "KrnlDebugLogFile", KrnlLogFile)
    ELSE config_set(config_set(config_set(config_set(secs,
            "gui", "CxbxDebugMode", <<"0x0">>),
            "gui", "CxbxDebugLogFile", <<>>),
            "core", "KrnlDebugMode", <<"0x0">>),
            "core", "KrnlDebugLogFile", <<>>)

\* a faulty variant that writes the default template anew instead of the
\* document it read
configure_from_template(file, debugOpt, gameResolution) ==
    IF file.kind = "corrupt"
    THEN [exc |-> "ConfigParseError", file |-> file]
    ELSE [exc |-> "none",
          file |-> IniFile("canonical", SetDebug(DefaultSecs, get_bool(debugOpt)))]

\* _configure_settings(settings_file, system, gameResolution): the file it
\* leaves and whether config.read raised.  gameResolution is not read.
configure_settings(file, debugOpt, gameResolution) ==
    LET present == IF file.kind = "absent" THEN create_default_settings ELSE file
    IN  IF present.kind = "corrupt"
        THEN [exc |-> "ConfigParseError", file |-> present]
        ELSE [exc |-> "none",
              file |-> IniFile("canonical",
                          SetDebug(EnsureSections(present.secs, GovernedSections),
                                   get_bool(debugOpt)))]

(***************************************************************************)
(* Environments: functions from variable names to values.                  *)
(***************************************************************************)
EmptyEnv == [k \in {} |-> ""]
\* dict.update(other)
Update(env, other) ==
    [k \in DOMAIN env \cup DOMAIN other |->
        IF k \in DOMAIN other THEN other[k] ELSE env[k]]
\* del env[k] for every k of names that is in env
Without(env, names) == [k \in DOMAIN env \ names |-> env[k]]
WithVars(names, value) == [k \in names |-> value]

variables_to_remove ==
    {"__NV_PRIME_RENDER_OFFLOAD", "__VK_LAYER_NV_optimus", "__GLX_VENDOR_LIBRARY_NAME"}
NvidiaVars ==
    [k \in {"VK_ICD_FILENAMES", "VK_LAYER_PATH"} |->
        IF k = "VK_ICD_FILENAMES"
        THEN "/usr/share/vulkan/icd.d/nvidia_icd.x86_64.json"
        ELSE "/usr/share/vulkan/explicit_layer.d"]
\* the first environment.update of generate
SdlVars ==
    [k \in {"SDL_GAMECONTROLLERCONFIG", "SDL_JOYSTICK_HIDAPI", "WINEDEBUG"} |->
        CASE k = "SDL_GAMECONTROLLERCONFIG" -> "<sdl-config>"
          [] k = "SDL_JOYSTICK_HIDAPI" -> "0"
          [] k = "WINEDEBUG" -> "-all"]

(***************************************************************************)
(* CxbxrGenerator.  The methods are operators on g, the state a call can   *)
(* read and write: the files and directories, os.environ, and the          *)
(* generator's own fields.  A method that can raise returns exc.           *)
(***************************************************************************)
None == <<>>

\* CxbxrGenerator.__init__
NewGenerator == [extracted_iso |-> None, extract_dir |-> None]

ExtractPath(name) == ISO_EXTRACT_BASE \o <<name>>

\* _get_extract_dir: the directory's name under ISO_EXTRACT_BASE
extract_name(rom) ==
    [i \in 1..Len(rom.stem) |-> SafeAtom(rom.stem[i])]
        \o <<"_">> \o <<Md5Hex8(PathStr(RomPath(rom)))>>
get_extract_dir(g, rom) ==
    [g |-> [g EXCEPT !.dirs = @ \cup {"scratch"}], dir |-> extract_name(rom)]

TreeAt(xs, name) == IF name \in DOMAIN xs THEN xs[name] ELSE {}
PutTree(xs, name, tree) ==
    [n \in DOMAIN xs \cup {name} |-> IF n = name THEN tree ELSE xs[n]]
RemoveTree(xs, name) == [n \in DOMAIN xs \ {name} |-> xs[n]]

\* what extract-xiso does: it exits non-zero, or it writes the tree the image
\* holds into the directory
ToolFail == [ok |-> FALSE, image |-> {}]
ToolOk(image) == [ok |-> TRUE, image |-> image]

\* _extract_iso
extract_iso(g, name, tool) ==
    LET made == [g EXCEPT !.extracts = PutTree(@, name, TreeAt(@, name))]
    IN  IF ~tool.ok
        THEN [g |-> made, exc |-> "ExtractionError"]
        ELSE [g |-> [made EXCEPT !.extracts =
                        PutTree(@, name, TreeAt(@, name) \cup tool.image)],
              exc |-> "none"]

\* _cleanup_extraction
cleanup_extraction(g) ==
    IF g.self.extract_dir # None /\ g.self.extract_dir \in DOMAIN g.extracts
    THEN [g EXCEPT !.extracts = RemoveTree(@, g.self.extract_dir),
                   !.self = [extracted_iso |-> None, extract_dir |-> None]]
    ELSE g

\* the text of the wrapper script: its two interpolations
Script(line, dir) == [kind |-> "script", line |-> line, dir |-> dir]
NoScript == [kind |-> "absent"]

Command(array, env) == [array |-> array, env |-> env]

\* a faulty variant that wraps every command, whether or not a directory was
\* recorded
wrap_always(g, command) ==
    [g |-> [g EXCEPT !.wrapper =
                Script(JoinSpace(command.array),
                       PathStr(ExtractPath(g.self.extract_dir)))],
     command |-> Command(<< <<"/bin/bash">>, PathStr(wrapper_script) >>,
                         command.env)]

\* _wrap_with_cleanup
wrap_with_cleanup(g, command) ==
    IF g.self.extract_dir # None
    THEN [g |-> [g EXCEPT !.wrapper =
                    Script(JoinSpace(command.array),
                           PathStr(ExtractPath(g.self.extract_dir)))],
          command |-> Command(<< <<"/bin/bash">>, PathStr(wrapper_script) >>,
                              command.env)]
    ELSE [g |-> g, command |-> command]

\* xbe_path.exists() for extract_dir / 'default.xbe'
TopLevelExists(tree) == \E e \in tree : e.rel = << <<"default.xbe">> >>
\* the entries of extract_dir.rglob('*') that pass the test of the loop
RglobMatches(tree) ==
    {e \in tree : e.kind = "file" /\ Lower(e.rel[Len(e.rel)]) = <<"default.xbe">>}

NoCommand == Command(<<>>, EmptyEnv)
Raise(g, exc) ==
    [g |-> g, exc |-> exc, xbe_path |-> <<>>,
     commandArray |-> <<>>, command |-> NoCommand]

\* What the world does during one call of generate:
\*   x.tool      what extract-xiso does (see extract_iso)
\*   x.first     the first entry rglob yields that passes the loop's test
\*   x.romExists whether a file is at the ROM path

\* generate, lines 83-91: g has the tree extracted into dir
find_xbe(g, dir, x) ==
    IF TopLevelExists(TreeAt(g.extracts, dir))
    THEN [g |-> g, exc |-> "none",
          xbe_path |-> ExtractPath(dir) \o << <<"default.xbe">> >>]
    ELSE IF RglobMatches(TreeAt(g.extracts, dir)) # {}
    THEN [g |-> g, exc |-> "none", xbe_path |-> ExtractPath(dir) \o x.first.rel]
    ELSE [g |-> cleanup_extraction(g), exc |-> "PayloadNotFound", xbe_path |-> <<>>]

\* generate, lines 79-91: e is what _extract_iso returned or raised
after_extract(e, rom, dir, x) ==
    IF e.exc # "none"
    THEN [g |-> e.g, exc |-> e.exc, xbe_path |-> <<>>]
    ELSE find_xbe([e.g EXCEPT !.self = [extracted_iso |-> RomPath(rom),
                                       extract_dir |-> dir]],
                  dir, x)

\* generate, lines 72-97: from the ROM path to xbe_path
resolve_rom(g, rom, x) ==
    IF LowerAtom(rom.suffix) = ".iso"
    THEN after_extract(
            extract_iso(get_extract_dir(g, rom).g, get_extract_dir(g, rom).dir, x.tool),
            rom, get_extract_dir(g, rom).dir, x)
    ELSE IF LowerAtom(rom.suffix) = ".xbe"
    THEN [g |-> g, exc |-> "none", xbe_path |-> RomPath(rom)]
    ELSE [g |-> g, exc |-> "UnsupportedFormat", xbe_path |-> <<>>]

\* xbe_path.exists(), line 101
XbeExists(g, x, xbe_path) ==
    IF g.self.extract_dir # None
    THEN \E e \in TreeAt(g.extracts, g.self.extract_dir) :
            ExtractPath(g.self.extract_dir) \o e.rel = xbe_path
    ELSE x.romExists

\* generate, lines 104-132: commandArray
command_array(xbe_path, debug_enabled) ==
    << PathStr(wine_exe), PathStr(cxbxr_exe), <<"/load">>, WinePath(xbe_path) >>
    \o (IF debug_enabled
        THEN << <<"/dm">>, <<"1">>, <<"/df">>,
                <<"Z:">> \o Replace(KrnlLogFile, "/", "\\") >>
        ELSE <<>>)

\* generate, lines 134-150: the environment of the command
command_environment ==
    IF host.nvidiaPrime
    THEN Update(Update(host.runnerEnv, SdlVars), NvidiaVars)
    ELSE Update(host.runnerEnv, SdlVars)

\* generate, lines 141-145: os.environ after the deletions
remove_offload(g) ==
    IF host.nvidiaPrime
    THEN [g EXCEPT !.environ = Without(@, variables_to_remove)]
    ELSE g

\* generate, line 161: wrap the command and return
finish(w, xbe_path, array) ==
    [g |-> w.g, exc |-> "none", xbe_path |-> xbe_path,
     commandArray |-> array, command |-> w.command]

\* generate, lines 99-161: r is what the resolution of the ROM gave
build_command(r, debugOpt, x) ==
    IF r.exc # "none" THEN Raise(r.g, r.exc)
    ELSE IF ~XbeExists(r.g, x, r.xbe_path) THEN Raise(r.g, "XbeNotFound")
    ELSE finish(
            wrap_with_cleanup(
                remove_offload(IF get_bool(debugOpt)
                               THEN [r.g EXCEPT !.dirs = @ \cup {"logs"}]
                               ELSE r.g),
                Command(command_array(r.xbe_path, get_bool(debugOpt)),
                        command_environment)),
            r.xbe_path,
            command_array(r.xbe_path, get_bool(debugOpt)))

\* generate, lines 70-161: cfg is what _configure_settings left or raised
after_configure(g, cfg, rom, debugOpt, x) ==
    IF cfg.exc # "none" THEN Raise([g EXCEPT !.settings = cfg.file], cfg.exc)
    ELSE build_command(resolve_rom([g EXCEPT !.settings = cfg.file], rom, x),
                       debugOpt, x)

\* generate, lines 66-68: os.environ['WINEARCH'], _initialize_wine_prefix
initialize_wine_prefix(g) ==
    [g EXCEPT !.environ = Update(@, WithVars({"WINEARCH"}, "win64")),
              !.tricks = @ \cup {"vcrun2019", "d3dcompiler_47"}]

\* CxbxrGenerator.generate(system, rom, ..., gameResolution)
generate(g, rom, debugOpt, gameResolution, x) ==
    IF ~host.xiso THEN Raise(g, "PrerequisiteMissing")
    ELSE IF ~host.exe
    THEN Raise([g EXCEPT !.dirs = @ \cup {"bottle"}], "PrerequisiteMissing")
    ELSE after_configure(
            initialize_wine_prefix([g EXCEPT !.dirs = @ \cup {"bottle"}]),
            configure_settings(g.settings, debugOpt, gameResolution),
            rom, debugOpt, x)

(***************************************************************************)
(* The launcher process (xboxlauncher.py) and the child it starts.         *)
(***************************************************************************)
Resolution(w, h) == [width |-> w, height |-> h]

NoProc ==
    [phase |-> "none", argv |-> <<>>, env |-> EmptyEnv, cmds |-> <<>>,
     ran |-> FALSE, emuArgv |-> <<>>, emuEnv |-> EmptyEnv, emuStatus |-> 0,
     EXIT_CODE |-> 0, returncode |-> 0, script |-> NoScript, removed |-> <<>>]

NoLaunch ==
    [phase |-> "idle", rom |-> GameBin, debug |-> "unset",
     res |-> Resolution(0, 0), exc |-> "none", self |-> NewGenerator,
     xbe_path |-> <<>>, commandArray |-> <<>>, command |-> NoCommand,
     configured |-> FALSE, repeat |-> FALSE, extracted |-> FALSE,
     searched |-> {}, before |-> [scratch |-> FALSE, names |-> {}],
     exitcode |-> 0]

\* the tree in the extraction directory of rom once extract-xiso has run
TreeAfter(rom, tool) ==
    TreeAt(extracts, extract_name(rom)) \cup tool.image

\* the outcomes x of the world that a call of generate on rom can meet here:
\* extraction and search happen for an image only, the search yields one of
\* the entries that pass its test, in the order of the file system, and
\* whether a file is at the ROM path is asked for a direct executable only
Outcomes(rom, images) ==
    IF LowerAtom(rom.suffix) = ".iso"
    THEN [tool : {ToolFail}, first : {NoEntry}, romExists : {TRUE}]
         \cup UNION {
            [tool : {ToolOk(i)},
             first : IF TopLevelExists(TreeAfter(rom, ToolOk(i)))
                        \/ RglobMatches(TreeAfter(rom, ToolOk(i))) = {}
                     THEN {NoEntry}
                     ELSE RglobMatches(TreeAfter(rom, ToolOk(i))),
             romExists : {TRUE}] : i \in images}
    ELSE [tool : {ToolFail}, first : {NoEntry},
          romExists : IF LowerAtom(rom.suffix) = ".xbe" THEN BOOLEAN ELSE {TRUE}]

\* start_rom up to the return of generate; launch()'s except clause and
\* sys.exit when generate raises
StartRom ==
    /\ launch.phase = "idle" \/ (host.relaunch /\ launch.phase = "exited")
    /\ \E rom \in host.roms, debugOpt \in host.debugOpts, res \in host.resolutions :
       \E x \in Outcomes(rom, host.images) :
       \E r \in {generate([settings |-> settings, dirs |-> dirs,
                             tricks |-> tricks, extracts |-> extracts,
                             wrapper |-> wrapper, environ |-> host.inherited,
                             self |-> NewGenerator],
                            rom, debugOpt, res, x)} :
          LET configured ==
                  r.exc \notin {"PrerequisiteMissing", "ConfigParseError"}
              extracted ==
                  /\ configured
                  /\ LowerAtom(rom.suffix) = ".iso"
                  /\ r.exc # "ExtractionError"
          IN  /\ settings' = r.g.settings
              /\ dirs' = r.g.dirs
              /\ tricks' = r.g.tricks
              /\ extracts' = r.g.extracts
              /\ wrapper' = r.g.wrapper
              /\ osEnviron' = r.g.environ
              /\ proc' = NoProc
              /\ launch' =
                    [phase |-> IF r.exc = "none" THEN "generated" ELSE "exited",
                     rom |-> rom, debug |-> debugOpt, res |-> res,
                     exc |-> r.exc, self |-> r.g.self,
                     xbe_path |-> r.xbe_path,
                     commandArray |-> r.commandArray,
                     command |-> r.command,
                     configured |-> configured,
                     repeat |-> /\ configured
                                /\ launch.configured
                                /\ launch.debug = debugOpt
                                /\ launch.res = res,
                     extracted |-> extracted,
                     searched |-> IF extracted THEN TreeAfter(rom, x.tool) ELSE {},
                     before |-> [scratch |-> "scratch" \in dirs,
                                 names |-> DOMAIN extracts],
                     exitcode |-> IF r.exc = "none" THEN 0 ELSE -1]
    /\ UNCHANGED <<host, peer>>

\* runCommand up to Popen: "nice -n -11" is put before the command, and the
\* child gets os.environ overlaid with the command's environment.  nice
\* replaces itself by the command that follows its options.
runCommand ==
    /\ launch.phase = "generated"
    /\ LET array == << <<"nice">>, <<"-n">>, <<"-11">> >> \o launch.command.array
           envvars == Update(osEnviron, launch.command.env)
           run == SubSeq(array, 4, Len(array))
           bash == Head(run) = <<"/bin/bash">>
       IN  /\ launch' = [launch EXCEPT !.phase = "running",
                                        !.command = Command(array, envvars)]
           /\ proc' = [NoProc EXCEPT
                          !.phase = IF bash THEN "bash" ELSE "emulator",
                          !.argv = run, !.env = envvars,
                          !.ran = ~bash,
                          !.emuArgv = IF bash THEN <<>> ELSE run,
                          !.emuEnv = IF bash THEN EmptyEnv ELSE envvars]
    /\ UNCHANGED <<host, peer, settings, dirs, tricks, extracts, wrapper, osEnviron>>

\* bash reads the command line of the script (line 217 of the generator): a
\* syntax error ends the script with status 2 before anything runs; else the
\* first simple command, the emulator, is started
BashRunLine ==
    /\ proc.phase = "bash"
    /\ wrapper.kind = "script"
    /\ LET parsed == ShellParse(wrapper.line)
       IN  IF ~parsed.ok
           THEN proc' = [proc EXCEPT !.phase = "exited", !.returncode = 2,
                                     !.script = wrapper]
           ELSE proc' = [proc EXCEPT !.phase = "emulator",
                                     !.script = wrapper,
                                     !.cmds = Tail(parsed.cmds),
                                     !.ran = TRUE,
                                     !.emuArgv = Head(parsed.cmds),
                                     !.emuEnv = proc.env]
    /\ UNCHANGED <<host, peer, settings, dirs, tricks, extracts, wrapper, osEnviron, launch>>

\* the emulator exits with status s.  Started by Popen itself, that is the
\* child's status.  Started by the script, bash goes on with the commands
\* left on the line, none of which names a program (status 127), and
\* EXIT_CODE=$? keeps the status of the last one.
EmulatorExit ==
    /\ proc.phase = "emulator"
    /\ \E s \in 0..MaxExit :
          IF Head(proc.argv) = <<"/bin/bash">>
          THEN proc' = [proc EXCEPT !.phase = "cleanup",
                                    !.emuStatus = s,
                                    !.cmds = <<>>,
                                    !.EXIT_CODE = IF proc.cmds = <<>> THEN s ELSE 127]
          ELSE proc' = [proc EXCEPT !.phase = "exited",
                                    !.emuStatus = s,
                                    !.returncode = s]
    /\ UNCHANGED <<host, peer, settings, dirs, tricks, extracts, wrapper, osEnviron, launch>>

\* if [ -d "dir" ]; then rm -rf "dir" 2>/dev/null || true; fi
\* bash reads a script as it goes, by file offset.  When the file is as bash
\* found it, the directory is the one of the script it started.  When the
\* file was rewritten while the emulator ran, what bash reads next is
\* whatever the new text holds at the old offset: the directory removed is
\* the old script's, the new script's or none, and the status the script
\* ends with is the one it kept or that of a line that no longer parses.
BashCleanup ==
    /\ proc.phase = "cleanup"
    /\ wrapper.kind = "script"
    /\ \E target \in IF wrapper = proc.script THEN {wrapper.dir}
                     ELSE {proc.script.dir, wrapper.dir, <<>>},
          code \in IF wrapper = proc.script THEN {proc.EXIT_CODE}
                   ELSE {proc.EXIT_CODE, 0, 2, 127} :
          /\ extracts' =
                [n \in {m \in DOMAIN extracts : PathStr(ExtractPath(m)) # target}
                    |-> extracts[n]]
          /\ proc' = [proc EXCEPT !.phase = "exit", !.removed = target,
                                  !.EXIT_CODE = code]
    /\ UNCHANGED <<host, peer, settings, dirs, tricks, wrapper, osEnviron, launch>>

\* exit $EXIT_CODE
BashExit ==
    /\ proc.phase = "exit"
    /\ proc' = [proc EXCEPT !.phase = "exited", !.returncode = proc.EXIT_CODE]
    /\ UNCHANGED <<host, peer, settings, dirs, tricks, extracts, wrapper, osEnviron, launch>>

\* proc.communicate() returns; runCommand returns proc.returncode, start_rom
\* and main return it, launch() passes it to sys.exit
Communicate ==
    /\ launch.phase = "running"
    /\ proc.phase = "exited"
    /\ launch' = [launch EXCEPT !.phase = "exited", !.exitcode = proc.returncode]
    /\ UNCHANGED <<host, peer, settings, dirs, tricks, extracts, wrapper, osEnviron, proc>>

(***************************************************************************)
(* Initial states and specifications.                                      *)
(***************************************************************************)
\* the environment the launcher is started in
PlainEnv == WithVars({"HOME"}, "/userdata/system")
\* wine_runner.get_environment()
RunnerEnv == WithVars({"WINEPREFIX"}, "/userdata/system/xbox-extra/cxbx-r")

StaleDebugSecs ==
    config_set(SetDebug(DefaultSecs, TRUE), "video", "FullScreen", <<"false">>)
SparseSecs ==
    << Section("overlay", << <<"FPS", <<"true">> >> >>),
       Section("gui", << <<"CxbxDebugLogFile", GuiLogFile>>,
                         <<"DataStorageToggle", <<"0x0">> >> >>),
       Section("video", << <<"VSync", <<"true">> >> >>) >>
InitialSettings ==
    {Absent, Corrupt, IniFile("raw", StaleDebugSecs), IniFile("raw", SparseSecs)}

\* the ROMs, image contents, option values and display resolutions that the
\* launches of a behaviour draw from
Inputs(roms, debugOpts, resolutions, images) ==
    [roms |-> roms, debugOpts |-> debugOpts,
     resolutions |-> resolutions, images |-> images, relaunch |-> TRUE]
\* the same, with one launch for each launcher process
Once(inputs) == [inputs EXCEPT !.relaunch = FALSE]

InitWith(settingsFiles, nvidia, inheritedEnvs, runnerEnvs, inputs) ==
    /\ host \in [xiso : BOOLEAN, exe : BOOLEAN, nvidiaPrime : nvidia,
                 inherited : inheritedEnvs, runnerEnv : runnerEnvs,
                 roms : {inputs.roms}, debugOpts : {inputs.debugOpts},
                 resolutions : {inputs.resolutions}, images : {inputs.images},
                 relaunch : {inputs.relaunch}]
    /\ settings \in settingsFiles
    /\ dirs \in IF host.exe THEN { {"bottle"}, {"bottle", "logs"} }
                ELSE { {}, {"logs"} }
    /\ tricks = {}
    /\ extracts = [n \in {} |-> {}]
    /\ wrapper = NoScript
    /\ osEnviron = host.inherited
    /\ launch = NoLaunch
    /\ proc = NoProc
    /\ peer = [osEnviron |-> host.inherited, launch |-> NoLaunch, proc |-> NoProc]

Child == runCommand \/ BashRunLine \/ EmulatorExit \/ BashCleanup \/ BashExit \/ Communicate

Next == StartRom \/ Child

\* Launch after launch of any ROM, on a machine whose settings file is absent
\* or unparsable at first.
Init ==
    InitWith({Absent, Corrupt}, {FALSE}, {PlainEnv}, {RunnerEnv},
             Inputs({HaloIso, GameXbe, GameXbeUpper, GameBin}, {"unset", "1"},
                    {Resolution(1920, 1080)}, Images))
Spec == Init /\ [][Next]_vars

\* Launch after launch with every value of the debug option and two display
\* resolutions, on a machine whose settings file is absent, unparsable, or
\* holds stale and unmanaged content.
Resolutions == {Resolution(640, 480), Resolution(1920, 1080)}
InitSettings ==
    InitWith(InitialSettings, {FALSE}, {PlainEnv}, {RunnerEnv},
             Inputs({MyGameIso, GameXbe, GameBin}, DebugOptions, Resolutions,
                    {ImgTop, ImgNoXbe}))
SpecSettings == InitSettings /\ [][Next]_vars

\* Launches on machines with and without the GPU marker file, started in any
\* environment and with any runner environment that may hold the offload
\* variables.
InheritedEnvs ==
    {Update(PlainEnv, WithVars(S, "1")) : S \in SUBSET variables_to_remove}
RunnerEnvs ==
    {Update(RunnerEnv, WithVars(S, "1")) : S \in SUBSET variables_to_remove}
InitEnv ==
    InitWith({Absent}, BOOLEAN, InheritedEnvs, RunnerEnvs,
             Inputs({HaloIso, GameXbe}, {"unset"}, {Resolution(1920, 1080)},
                    {ImgTop}))
SpecEnv == InitEnv /\ [][Next]_vars

\* Two launcher processes on one machine, each launching one .iso ROM.  One of
\* them is scheduled at a time (osEnviron, launch, proc); the other waits in
\* peer.  Switch is the scheduler passing from one to the other, which it can
\* do between any two steps.
Switch ==
    /\ peer' = [osEnviron |-> osEnviron, launch |-> launch, proc |-> proc]
    /\ osEnviron' = peer.osEnviron
    /\ launch' = peer.launch
    /\ proc' = peer.proc
    /\ UNCHANGED <<host, settings, dirs, tricks, extracts, wrapper>>

NextTwo == StartRom \/ Child \/ Switch
InitTwo ==
    InitWith({Absent}, {FALSE}, {PlainEnv}, {RunnerEnv},
             Once(Inputs({HaloIso, MyGameIso}, {"unset"}, {Resolution(1920, 1080)},
                         {ImgTop})))
SpecTwo == InitTwo /\ [][NextTwo]_vars

(***************************************************************************)
(* Properties of the launch lifecycle, checked under Spec.                 *)
(***************************************************************************)
IsIso(rom) == LowerAtom(rom.suffix) = ".iso"
IsXbe(rom) == LowerAtom(rom.suffix) = ".xbe"
\* the launch handed its command to runCommand
HandedOff == launch.exc = "none" /\ launch.phase \in {"running", "exited"}

\* C1: for a launch of an .iso ROM that reaches handoff and every exit status
\* s of the emulator, the wrapped command first runs the emulator, then
\* removes the launch's extraction directory, and only then exits with s,
\* which runCommand reports; the directory never survives the wrapper's exit.
C1_WrapperRunsCleansAndKeepsStatus ==
    (HandedOff /\ IsIso(launch.rom)) =>
        /\ proc.phase = "emulator" => launch.self.extract_dir \in DOMAIN extracts
        /\ proc.phase \in {"cleanup", "exit", "exited"} => proc.ran
        /\ proc.phase \in {"exit", "exited"} =>
              launch.self.extract_dir \notin DOMAIN extracts
        /\ proc.phase = "exit" => proc.EXIT_CODE = proc.emuStatus
        /\ proc.phase = "exited" => proc.returncode = proc.emuStatus
        /\ launch.phase = "exited" => launch.exitcode = proc.emuStatus

\* C2: in every terminal state of a launch that created an extraction
\* directory, that directory no longer exists, whether the launch ended with
\* the wrapped process or with a failure of generate after the directory was
\* created.
C2_ResourceNeverOutlivesLaunch ==
    (/\ launch.phase = "exited"
     /\ launch.configured
     /\ IsIso(launch.rom)
     /\ extract_name(launch.rom) \notin launch.before.names)
        => extract_name(launch.rom) \notin DOMAIN extracts

\* C3: when an image is extracted successfully and no file named default.xbe,
\* in any letter case, is anywhere in the extracted tree, generate fails with
\* the payload-not-found error and the extraction directory is gone when the
\* error is raised.
C3_NoPayloadFailsAfterCleanup ==
    (/\ launch.phase # "idle"
     /\ launch.extracted
     /\ RglobMatches(launch.searched) = {})
        => /\ launch.exc = "PayloadNotFound"
           /\ extract_name(launch.rom) \notin DOMAIN extracts

\* what the launch of a ROM that is not an image leaves alone: no directory
\* appears under the scratch root, the scratch root included, and the
\* generator records nothing
NoTransientState ==
    /\ DOMAIN extracts = launch.before.names
    /\ ("scratch" \in dirs) = launch.before.scratch
    /\ launch.self = NewGenerator
\* the command a direct executable is launched with, when generate returns
DirectCommand ==
    /\ launch.phase = "generated" =>
          /\ launch.xbe_path = RomPath(launch.rom)
          /\ launch.commandArray[4] = WinePath(RomPath(launch.rom))
          /\ launch.command.array = launch.commandArray
    /\ HandedOff =>
          /\ proc.argv = launch.commandArray
          /\ proc.emuArgv = launch.commandArray

C10_WrapperPassesArgv ==
    (proc.ran /\ Head(proc.argv) = <<"/bin/bash">>)
        => proc.emuArgv = launch.commandArray

(***************************************************************************)
(* Properties of settings.ini, checked under SpecSettings.                 *)
(***************************************************************************)
\* "<width>x<height>" of the display resolutions of SpecSettings
ResolutionText(res) ==
    CASE res = Resolution(640, 480) -> <<"640x480">>
      [] res = Resolution(1920, 1080) -> <<"1920x1080">>
      [] OTHER -> <<"0x0">>

\* C4: after configure runs with none of the governed options set in the
\* launch options, the file holds FullScreen=true, VSync=false,
\* MaintainAspect=true and VideoResolution = "<width>x<height>" of the
\* display resolution passed in, whatever the file held before.
C4_VideoDefaultsWritten ==
    (launch.configured /\ launch.debug = "unset") =>
        /\ settings.kind = "ini"
        /\ Lookup(settings.secs, "video", "FullScreen") = <<"true">>
        /\ Lookup(settings.secs, "video", "VSync") = <<"false">>
        /\ Lookup(settings.secs, "video", "MaintainAspect") = <<"true">>
        /\ Lookup(settings.secs, "video", "VideoResolution") = ResolutionText(launch.res)

StartsWith(text, prefix) ==
    /\ Len(text) > Len(prefix)
    /\ SubSeq(text, 1, Len(prefix)) = prefix
\* the argument list holds flag followed by an argument that satisfies Ok
FlagArg(array, flag, Ok(_)) ==
    \E i \in 1..(Len(array) - 1) : array[i] = <<flag>> /\ Ok(array[i + 1])
IsOne(arg) == arg = <<"1">>
IsWineLogPath(arg) ==
    StartsWith(arg, WinePath(BATOCERA_LOGDIR) \o <<"\\">>)
NoFlag(array, flag) == \A i \in 1..Len(array) : array[i] # <<flag>>
\* the argument list the emulator is started with, once there is one
HasArgv == launch.exc = "none" /\ launch.phase # "idle"

\* what the claim asks of the settings file and of argv for the debug option
\* of the launch last started
DebugReflectsLaunch ==
    IF get_bool(launch.debug)
    THEN /\ settings.kind = "ini"
         /\ Lookup(settings.secs, "gui", "CxbxDebugMode") = <<"0x1">>
         /\ Lookup(settings.secs, "core", "KrnlDebugMode") = <<"0x1">>
         /\ StartsWith(Lookup(settings.secs, "gui", "CxbxDebugLogFile"),
                       PathStr(BATOCERA_LOGDIR) \o <<"/">>)
         /\ StartsWith(Lookup(settings.secs, "core", "KrnlDebugLogFile"),
                       PathStr(BATOCERA_LOGDIR) \o <<"/">>)
         /\ HasArgv =>
               /\ FlagArg(launch.commandArray, "/dm", IsOne)
               /\ FlagArg(launch.commandArray, "/df", IsWineLogPath)
    ELSE /\ settings.kind = "ini"
         /\ Lookup(settings.secs, "gui", "CxbxDebugMode") = <<"0x0">>
         /\ Lookup(settings.secs, "core", "KrnlDebugMode") = <<"0x0">>
         /\ Lookup(settings.secs, "gui", "CxbxDebugLogFile") = <<>>
         /\ Lookup(settings.secs, "core", "KrnlDebugLogFile") = <<>>
         /\ HasArgv =>
               /\ NoFlag(launch.commandArray, "/dm")
               /\ NoFlag(launch.commandArray, "/df")

\* C5 as stated: after any sequence of launches the debug keys of the
\* settings file and the debug flags of argv are those of the last launch's
\* debug option: enabled gives 0x1, log paths under the log directory and
\* both flags; unset or disabled gives 0x0, empty log paths and no flag.
C5_DebugReflectsLastLaunchAsStated ==
    launch.phase # "idle" => DebugReflectsLaunch

\* C5: the same for every launch whose generate got as far as the settings
\* step and read the file.
C5_DebugReflectsLastLaunch ==
    launch.configured => DebugReflectsLaunch

\* a launch with debug disabled ran after a launch with debug enabled had
\* left its wrapper script behind
C5_Witness ==
    /\ launch.configured
    /\ launch.debug = "0"
    /\ launch.exc = "none"
    /\ IsXbe(launch.rom)
    /\ wrapper.kind = "script"
    /\ \E i \in 1..Len(wrapper.line) : wrapper.line[i] = "/dm"

\* C6: configure is idempotent: called twice in succession with the same
\* launch options and display resolution, from every initial state of the
\* file, the second call leaves the content the first one left.
C6_ConfigureIdempotent ==
    [][launch'.repeat => settings' = settings]_vars

\* a launch configured the file with the options of the launch before it,
\* debug enabled
C6_Witness ==
    /\ launch.repeat
    /\ get_bool(launch.debug)
    /\ settings.kind = "ini"

\* the debug and video keys configure governs
GovernedKeys ==
    {<<"gui", "CxbxDebugMode">>, <<"gui", "CxbxDebugLogFile">>,
     <<"core", "KrnlDebugMode">>, <<"core", "KrnlDebugLogFile">>,
     <<"video", "FullScreen">>, <<"video", "VSync">>,
     <<"video", "MaintainAspect">>, <<"video", "VideoResolution">>}
KeysOf(secs) ==
    UNION {{<<secs[i].name, secs[i].items[j][1]>> : j \in 1..Len(secs[i].items)}
              : i \in 1..Len(secs)}

\* C7: every section, and every key outside the governed ones with its
\* value, that a parsable settings file holds before configure is in the
\* file after configure, for both values of the debug option.
C7_UngovernedPreserved ==
    [][(launch'.configured /\ settings.kind = "ini")
         => /\ settings'.kind = "ini"
            /\ \A i \in 1..Len(settings.secs) :
                  has_section(settings'.secs, settings.secs[i].name)
            /\ \A k \in KeysOf(settings.secs) \ GovernedKeys :
                  Lookup(settings'.secs, k[1], k[2]) = Lookup(settings.secs, k[1], k[2])
      ]_vars

\* configure with debug enabled went over a file that holds an overlay
\* section and an extra key in a governed section, and they are there
C7_Witness ==
    /\ launch.configured
    /\ get_bool(launch.debug)
    /\ settings.kind = "ini"
    /\ Lookup(settings.secs, "overlay", "FPS") = <<"true">>
    /\ Lookup(settings.secs, "gui", "DataStorageToggle") = <<"0x0">>
    /\ ~has_section(settings.secs, "hack")

(***************************************************************************)
(* Properties of the emulator's environment, checked under SpecEnv.        *)
(***************************************************************************)
\* C8: when the GPU marker file exists, the environment the emulator process
\* is started with holds none of the three offload variables, whether they
\* came from the inherited environment or from the runner's base
\* environment, and holds VK_ICD_FILENAMES and VK_LAYER_PATH set to the
\* vendor paths.
C8_NoOffloadVariablesWithMarker ==
    (host.nvidiaPrime /\ proc.ran) =>
        /\ DOMAIN proc.emuEnv \cap variables_to_remove = {}
        /\ \A k \in DOMAIN NvidiaVars :
              k \in DOMAIN proc.emuEnv /\ proc.emuEnv[k] = NvidiaVars[k]

(***************************************************************************)
(* Properties of two launcher processes, checked under SpecTwo.            *)
(***************************************************************************)
OwnDir(l) == PathStr(ExtractPath(l.self.extract_dir))
\* launch l, with child p, handed off a wrapped command while the other
\* launcher process was launching or had launched a different .iso ROM
Concurrent(l, other) ==
    /\ l.exc = "none" /\ IsIso(l.rom) /\ l.phase \in {"running", "exited"}
    /\ other.phase # "idle" /\ IsIso(other.rom) /\ other.rom # l.rom
\* the script p runs is the one l wrote, and the directory it removes is l's
RunsOwnScript(l, p, other) ==
    Concurrent(l, other) =>
        /\ p.ran => p.script.line = JoinSpace(l.commandArray)
        /\ p.phase \in {"exit", "exited"} => p.removed = OwnDir(l)

\* C11: of two launcher processes started on two different .iso paths and
\* interleaved in any order, each one's wrapped command runs the executable
\* resolved for its own ROM and removes its own extraction directory, never
\* the command or the directory of the other.
C11_LaunchesDoNotInterfere ==
    /\ RunsOwnScript(launch, proc, peer.launch)
    /\ RunsOwnScript(peer.launch, peer.proc, launch)

====
